---- MODULE Spec2Model ----
(***************************************************************************)
(* Model of the uber-mcp-server request paths: the FastAPI application     *)
(* built by create_app (src/main.py), the JSON-RPC endpoint and dispatcher *)
(* of MCPServer (src/mcp_server.py) and the tools behind them, of which    *)
(* only KubernetesPortForwardingTool keeps state, and the stdio bridge of   *)
(* src/mcp_stdio_bridge.py in front of that application.                   *)
(*                                                                         *)
(* Python values are encoded as follows.  None is the string "None" (what  *)
(* an f-string prints for it).  A dict is a function whose domain is the   *)
(* set of its keys.  A JSON value whose type the code depends on (the      *)
(* message, params, arguments) is tagged: [type |-> "object", fields |-> d]*)
(* for an object, [type |-> "array"] and [type |-> "null"] otherwise.      *)
(***************************************************************************)
EXTENDS Integers, Sequences, FiniteSets, TLC

VARIABLES
    active_forwards,  \* KubernetesPortForwardingTool._active_forwards, in insertion order
    uuids,            \* number of uuid.uuid4() calls made so far
    http,             \* the last HTTP exchange: request and response
    dispatch,         \* _handle_method for the last request: "not entered", "returned", "raised"
    executed,         \* indices (in tools) of the instances whose execute ran for it
    outcome,          \* what that execute did: returned a dict or raised
    listed,           \* the latest listing answered before the last exchange: its route and name order
    called,           \* the handshake methods the dispatcher has answered so far
    world,            \* the environment that the last exchange ran in
    before,           \* _active_forwards as it was when the last exchange began
    started,          \* the forward_ids returned by successful starts, in order
    stopped,          \* the forward_ids that a stop has answered "stopped" for
    pc,               \* where SimpleMCPBridge.run is: "probe", "loop", "eof", "failed"
    inflight,         \* the requests that handle_request is being awaited for
    stdout,           \* the lines the bridge has written to stdout, in order
    handled,          \* the requests the bridge has passed to handle_request, in order
    lines_read,       \* the number of lines the bridge has read from stdin
    scheme,           \* which bridge script runs: "http" or "https"
    probed,           \* what the probe GET / of run met, "none" before it
    calls,            \* for each line of stdout, what the outbound call behind it met
    log,              \* what each readline returned, in order: the kind of line, or "eof"
    stdin,            \* the lines that the client of the bridge may send
    tpc,              \* for each calling thread, where it is in the tool's method
    op,               \* for each calling thread, its call: arguments, locals and result
    holders,          \* the threads inside a `with self._lock` block
    stop_count        \* for each forward_id, how many stops have answered "stopped"

serverVars == <<active_forwards, uuids, http, dispatch, executed, outcome, listed, called,
                world, before, started, stopped>>

bridgeVars == <<pc, inflight, stdout, handled, lines_read, scheme, probed, calls, log,
                stdin>>

threadVars == <<tpc, op, holders, stop_count>>

vars == <<serverVars, bridgeVars, threadVars>>

None == "None"

EmptyDict == <<>>

Obj(d) == [type |-> "object", fields |-> d]

JsonArray == [type |-> "array"]

JsonNull == [type |-> "null"]

\* type(v).__name__ of a decoded JSON value
PyType(t) == IF t = "array" THEN "list" ELSE IF t = "null" THEN "NoneType" ELSE "dict"

\* dict.get(key, default)
Get(d, k, default) == IF k \in DOMAIN d THEN d[k] ELSE default

\* an optional member: <<>> when absent, <<v>> when present
Opt(S) == {<<>>} \cup {<<v>> : v \in S}

Field(k, o) == IF o = <<>> THEN EmptyDict ELSE k :> o[1]

(***************************************************************************)
(* Bounds of the model.                                                    *)
(***************************************************************************)
MaxUuids == 2

(***************************************************************************)
(* The tool registry: the list built in create_app, in source order.       *)
(***************************************************************************)
tools ==
   << 
      [name |-> "helmdependency", cls |-> "HelmDependencyTool"],
      [name |-> "helminstall", cls |-> "HelmInstallTool"],
      [name |-> "helmlist", cls |-> "HelmListTool"],
      [name |-> "helmuninstall", cls |-> "HelmUninstallTool"],
      [name |-> "helmupgrade", cls |-> "HelmUpgradeTool"],
      [name |-> "helmrollback", cls |-> "HelmRollbackTool"],
      [name |-> "helmstatus", cls |-> "HelmStatusTool"],
      [name |-> "helmhistory", cls |-> "HelmHistoryTool"],
      [name |-> "helmget", cls |-> "HelmGetTool"],
      [name |-> "helmrepo", cls |-> "HelmRepoTool"],
      [name |-> "helmsearch", cls |-> "HelmSearchTool"],
      [name |-> "helmshow", cls |-> "HelmShowTool"],
      [name |-> "kubernetescreate", cls |-> "KubernetesCreateTool"],
      [name |-> "kubernetesexpose", cls |-> "KubernetesExposeTool"],
      [name |-> "kubernetesrun", cls |-> "KubernetesRunTool"],
      [name |-> "kubernetesset", cls |-> "KubernetesSetTool"],
      [name |-> "kubernetesexplain", cls |-> "KubernetesExplainTool"],
      [name |-> "kubernetesget", cls |-> "KubernetesGetTool"],
      [name |-> "kubernetesedit", cls |-> "KubernetesEditTool"],
      [name |-> "kubernetesdelete", cls |-> "KubernetesDeleteTool"],
      [name |-> "kubernetesrollout", cls |-> "KubernetesRolloutTool"],
      [name |-> "kubernetesscale", cls |-> "KubernetesScaleTool"],
      [name |-> "kubernetesautoscale", cls |-> "KubernetesAutoscaleTool"],
      [name |-> "kubernetesclusterinfo", cls |-> "KubernetesClusterInfoTool"],
      [name |-> "kubernetestop", cls |-> "KubernetesTopTool"],
      [name |-> "kubernetesnodemanagement", cls |-> "KubernetesNodeManagementTool"],
      [name |-> "kubernetesdescribe", cls |-> "KubernetesDescribeTool"],
      [name |-> "kuberneteslogs", cls |-> "KubernetesLogsTool"],
      [name |-> "kubernetesexec", cls |-> "KubernetesExecTool"],
      [name |-> "kubernetescp", cls |-> "KubernetesCopyTool"],
      [name |-> "kubernetesapply", cls |-> "KubernetesApplyTool"],
      [name |-> "kubernetespatch", cls |-> "KubernetesPatchTool"],
      [name |-> "kubernetescrd", cls |-> "KubernetesCRDTool"],
      [name |-> "kuberneteslabel", cls |-> "KubernetesLabelTool"],
      [name |-> "kubernetesannotate", cls |-> "KubernetesAnnotateTool"],
      [name |-> "kubernetespods", cls |-> "KubernetesPodsTool"],
      [name |-> "kubernetesevents", cls |-> "KubernetesEventsTool"],
      [name |-> "kubernetesdeployments", cls |-> "KubernetesDeploymentsTool"],
      [name |-> "kubernetesservices", cls |-> "KubernetesServicesTool"],
      [name |-> "kubernetesingresses", cls |-> "KubernetesIngressesTool"],
      [name |-> "kubernetessecrets", cls |-> "KubernetesSecretsTool"],
      [name |-> "kubernetespersistentvolumes", cls |-> "KubernetesPersistentVolumesTool"],
      [name |-> "kubernetesjobs", cls |-> "KubernetesJobsTool"],
      [name |-> "kubernetescronjobs", cls |-> "KubernetesCronJobsTool"],
      [name |-> "kubernetesroutes", cls |-> "KubernetesRoutesTool"],
      [name |-> "kubernetesportforwarding", cls |-> "KubernetesPortForwardingTool"]
   >>

ToolIndices == 1..Len(tools)

ToolNames == [i \in ToolIndices |-> tools[i].name]

\* names for which tools/list carries a hard-coded inputSchema
SchemaNames ==
    { 
      "helminstall", "helmlist", "helmuninstall", "helmupgrade",
      "helmrollback", "helmstatus", "helmhistory", "helmget", "helmrepo",
      "helmsearch", "helmshow", "kubernetescreate", "kubernetesexpose",
      "kubernetesrun", "kubernetesset", "kubernetesget", "kubernetesdelete",
      "kubernetesscale", "kubernetesdescribe", "kuberneteslogs",
      "kubernetesexec", "kubernetesapply", "kubernetesportforwarding",
      "kubernetesexplain", "kubernetesedit", "kubernetesrollout",
      "kubernetesautoscale", "kubernetesclusterinfo", "kubernetestop",
      "kubernetesnodemanagement", "kubernetescp", "kubernetespatch",
      "kuberneteslabel", "kubernetesannotate", "kubernetespods",
      "kubernetesdeployments", "kubernetesservices"
    }

protocol_version == "2024-11-05"

server_info == [name |-> "uber-mcp-server", version |-> "0.1.0"]

(***************************************************************************)
(* What a call of execute does: it returns a dict or raises, and it may    *)
(* change the port-forward registry and consume a uuid.                    *)
(***************************************************************************)
Return(result, fwd, n) ==
    [kind |-> "return", result |-> result, exc |-> None, msg |-> None,
     forwards |-> fwd, uuids |-> n, api |-> FALSE]

Raise(exc, msg, fwd, n) ==
    [kind |-> "raise", result |-> EmptyDict, exc |-> exc, msg |-> msg,
     forwards |-> fwd, uuids |-> n, api |-> FALSE]

\* the same outcome, reached after v1.read_namespaced_pod was called
AfterPodLookup(r) == [r EXCEPT !.api = TRUE]

NoExecution ==
    [kind |-> "none", result |-> EmptyDict, exc |-> None, msg |-> None, api |-> FALSE]

\* what the exchange records of a call of execute
OutcomeOf(r) ==
    [kind |-> r.kind, result |-> r.result, exc |-> r.exc, msg |-> r.msg, api |-> r.api]

(***************************************************************************)
(* The environment of one call: the exit of the CLI or SDK call behind a   *)
(* stateless tool, the result of the bind probe on 127.0.0.1, whether a    *)
(* kube config loads, and what read_namespaced_pod answers.                *)
(***************************************************************************)
PodLookups == {"Running", "Pending", "ApiException404", "ApiException500", "NoStatus"}

NormalEnv == [cli |-> "ok", port_free |-> TRUE, config_ok |-> TRUE, pod |-> "Running"]

StatelessEnvs == {NormalEnv, [NormalEnv EXCEPT !.cli = "fail"]}

PortForwardEnvs ==
    {[NormalEnv EXCEPT !.pod = p] : p \in PodLookups}
        \cup {[NormalEnv EXCEPT !.port_free = FALSE],
              [NormalEnv EXCEPT !.config_ok = FALSE]}

(***************************************************************************)
(* The 45 stateless tools.  Each execute is one try block whose last       *)
(* handler is `except Exception`, so it always returns a dict: a payload   *)
(* without an "error" key, or {"error": ...}.                              *)
(***************************************************************************)
StatelessExecute(kwargs, env, fwd, n) ==
    IF env.cli = "ok"
    THEN Return([status |-> "success"], fwd, n)
    ELSE Return([error |-> "Command failed with exit code 1"], fwd, n)

(***************************************************************************)
(* KubernetesPortForwardingTool.  A registry entry is kept as the record   *)
(* that list reports for it: {"forward_id": fid, **info}.                  *)
(***************************************************************************)
Uuid(k) == "uuid-" \o ToString(k)

\* uuid4 handing out a value it has handed out before
uuid4Repeating(n) == Uuid(1)

\* str(uuid.uuid4()) on the draw after n earlier ones: a version 4 UUID, 122
\* random bits, taken as different from every value drawn before
uuid4(n) == Uuid(n + 1)

validate_port(port) == 1 <= port /\ port <= 65535

HasForward(fwd, forward_id) == \E i \in 1..Len(fwd) : fwd[i].forward_id = forward_id

RemoveForward(fwd, forward_id) == SelectSeq(fwd, LAMBDA e : e.forward_id # forward_id)

\* SetItem that stores nothing
SetItemDropped(fwd, entry) == fwd

\* self._active_forwards[forward_id] = info: a new key goes last, a key that
\* is present keeps its place and takes the new value
SetItem(fwd, entry) ==
    IF HasForward(fwd, entry.forward_id)
    THEN [i \in DOMAIN fwd |->
             IF fwd[i].forward_id = entry.forward_id THEN entry ELSE fwd[i]]
    ELSE Append(fwd, entry)

\* is_port_available that also refuses a port the registry holds
is_port_availableUnlessRegistered(port, env) ==
    /\ env.port_free
    /\ \A i \in DOMAIN active_forwards : active_forwards[i].local_port # port

\* is_port_available with the bind probe always succeeding
is_port_availableAlways(port, env) == TRUE

is_port_available(port, env) == env.port_free

\* start_port_forward without the test of the pod's phase
start_port_forwardAnyPhase(pod_name, namespace, local_port, remote_port, env, fwd, n) ==
    IF ~validate_port(local_port)
    THEN Return([error |-> "Invalid local port: " \o ToString(local_port)
                              \o ". Must be between 1 and 65535"], fwd, n)
    ELSE IF ~validate_port(remote_port)
    THEN Return([error |-> "Invalid remote port: " \o ToString(remote_port)
                              \o ". Must be between 1 and 65535"], fwd, n)
    ELSE IF ~is_port_available(local_port, env)
    THEN Return([error |-> "Local port " \o ToString(local_port)
                              \o " is already in use"], fwd, n)
    ELSE IF ~env.config_ok
    THEN Raise("ConfigException", "Invalid kube-config file. No configuration found.",
               fwd, n)
    ELSE IF env.pod = "ApiException404"
    THEN AfterPodLookup(Return([error |-> "Pod '" \o pod_name \o "' not found in namespace '"
                                             \o namespace \o "'"], fwd, n))
    ELSE IF env.pod = "ApiException500"
    THEN AfterPodLookup(Raise("ApiException", "(500) Reason: Internal Server Error", fwd, n))
    ELSE IF env.pod = "NoStatus"
    THEN AfterPodLookup(Raise("AttributeError",
                              "'NoneType' object has no attribute 'phase'", fwd, n))
    ELSE LET forward_id == uuid4(n)
             entry == [forward_id |-> forward_id, pod_name |-> pod_name,
                       namespace |-> namespace, local_port |-> local_port,
                       remote_port |-> remote_port, status |-> "active"]
         IN  AfterPodLookup(
                 Return([status |-> "active", forward_id |-> forward_id,
                         pod_name |-> pod_name, namespace |-> namespace,
                         local_port |-> local_port, remote_port |-> remote_port],
                        SetItem(fwd, entry), n + 1))

start_port_forward(pod_name, namespace, local_port, remote_port, env, fwd, n) ==
    IF ~validate_port(local_port)
    THEN Return([error |-> "Invalid local port: " \o ToString(local_port)
                              \o ". Must be between 1 and 65535"], fwd, n)
    ELSE IF ~validate_port(remote_port)
    THEN Return([error |-> "Invalid remote port: " \o ToString(remote_port)
                              \o ". Must be between 1 and 65535"], fwd, n)
    ELSE IF ~is_port_available(local_port, env)
    THEN Return([error |-> "Local port " \o ToString(local_port)
                              \o " is already in use"], fwd, n)
    ELSE IF ~env.config_ok
    THEN Raise("ConfigException", "Invalid kube-config file. No configuration found.",
               fwd, n)
    ELSE IF env.pod = "ApiException404"
    THEN AfterPodLookup(Return([error |-> "Pod '" \o pod_name \o "' not found in namespace '"
                                             \o namespace \o "'"], fwd, n))
    ELSE IF env.pod = "ApiException500"
    THEN AfterPodLookup(Raise("ApiException", "(500) Reason: Internal Server Error", fwd, n))
    ELSE IF env.pod = "NoStatus"
    THEN AfterPodLookup(Raise("AttributeError",
                              "'NoneType' object has no attribute 'phase'", fwd, n))
    ELSE IF env.pod # "Running"
    THEN AfterPodLookup(Return([error |-> "Pod '" \o pod_name \o "' is not running (status: "
                                             \o env.pod \o ")"], fwd, n))
    ELSE LET forward_id == uuid4(n)
             entry == [forward_id |-> forward_id, pod_name |-> pod_name,
                       namespace |-> namespace, local_port |-> local_port,
                       remote_port |-> remote_port, status |-> "active"]
         IN  AfterPodLookup(
                 Return([status |-> "active", forward_id |-> forward_id,
                         pod_name |-> pod_name, namespace |-> namespace,
                         local_port |-> local_port, remote_port |-> remote_port],
                        SetItem(fwd, entry), n + 1))

\* stop_port_forward that marks the entry but leaves it in the registry
stop_port_forwardKeepsEntry(forward_id, fwd, n) ==
    IF ~HasForward(fwd, forward_id)
    THEN Return([error |-> "Forward ID '" \o forward_id \o "' not found"], fwd, n)
    ELSE Return([status |-> "stopped", forward_id |-> forward_id], fwd, n)

stop_port_forward(forward_id, fwd, n) ==
    IF ~HasForward(fwd, forward_id)
    THEN Return([error |-> "Forward ID '" \o forward_id \o "' not found"], fwd, n)
    ELSE Return([status |-> "stopped", forward_id |-> forward_id],
                RemoveForward(fwd, forward_id), n)

list_port_forwards(fwd, n) == Return([forwards |-> fwd], fwd, n)

\* `not x` for a str-or-None member and for an int-or-None member of kwargs
FalsyStr(kwargs, k) == k \notin DOMAIN kwargs \/ kwargs[k] = None \/ kwargs[k] = ""

FalsyInt(kwargs, k) == k \notin DOMAIN kwargs \/ kwargs[k] = 0

\* handle_start_action with namespace defaulting to "default"
handle_start_actionDefaultNamespace(kwargs, env, fwd, n) ==
    IF \/ FalsyStr(kwargs, "pod_name")
       \/ FalsyInt(kwargs, "local_port") \/ FalsyInt(kwargs, "remote_port")
    THEN Return([error |-> "Missing required parameters. Need: pod_name, namespace, local_port, remote_port"],
                fwd, n)
    ELSE start_port_forward(kwargs.pod_name, Get(kwargs, "namespace", "default"),
                            kwargs.local_port, kwargs.remote_port, env, fwd, n)

\* the inputs drawn follow the tool's input schema: pod_name and namespace
\* are strings and the ports are integers, so the isinstance checks of lines
\* 175-179 pass and int() of lines 182-183 returns its argument
handle_start_action(kwargs, env, fwd, n) ==
    IF \/ FalsyStr(kwargs, "pod_name") \/ FalsyStr(kwargs, "namespace")
       \/ FalsyInt(kwargs, "local_port") \/ FalsyInt(kwargs, "remote_port")
    THEN Return([error |-> "Missing required parameters. Need: pod_name, namespace, local_port, remote_port"],
                fwd, n)
    ELSE start_port_forward(kwargs.pod_name, kwargs.namespace,
                            kwargs.local_port, kwargs.remote_port, env, fwd, n)

handle_stop_action(kwargs, fwd, n) ==
    IF FalsyStr(kwargs, "forward_id")
    THEN Return([error |-> "Missing required parameter: forward_id"], fwd, n)
    ELSE stop_port_forward(kwargs.forward_id, fwd, n)

\* the handler call with handler = self._list_port_forwards, which takes
\* no keyword parameter: any keyword is a TypeError
call_list_handler(kwargs, fwd, n) ==
    IF DOMAIN kwargs # {}
    THEN Raise("TypeError",
               "KubernetesPortForwardingTool._list_port_forwards() got an unexpected keyword argument '"
                   \o (CHOOSE k \in DOMAIN kwargs : TRUE) \o "'", fwd, n)
    ELSE list_port_forwards(fwd, n)

PortForwardExecute(kwargs, env, fwd, n) ==
    LET action == Get(kwargs, "action", "start")
    IN  IF action = "start" THEN handle_start_action(kwargs, env, fwd, n)
        ELSE IF action = "stop" THEN handle_stop_action(kwargs, fwd, n)
        ELSE IF action = "list" THEN call_list_handler(kwargs, fwd, n)
        ELSE Return([error |-> "Unknown action: " \o action
                                   \o ". Valid actions: start, stop, list"], fwd, n)

(***************************************************************************)
(* tool.execute with the keyword arguments kwargs, on the instance at      *)
(* index i of tools.                                                       *)
(***************************************************************************)
Execute(i, kwargs, env, fwd, n) ==
    IF tools[i].cls = "KubernetesPortForwardingTool"
    THEN PortForwardExecute(kwargs, env, fwd, n)
    ELSE StatelessExecute(kwargs, env, fwd, n)

(***************************************************************************)
(* MCPServer._handle_method.  The outcome is a response dict, or an        *)
(* exception that leaves the dispatcher.                                   *)
(***************************************************************************)
\* json.dumps(result, indent=2): the text that decodes to result
JsonDumps(v) == [json |-> v]

InputSchema(name) ==
    IF name \in SchemaNames
    THEN [type |-> "object", table |-> name]
    ELSE [type |-> "object", properties |-> EmptyDict, additionalProperties |-> TRUE]

\* ToolsList built with insert(0, ...) in place of append
ToolsListReversed ==
    [i \in ToolIndices |->
        [name |-> tools[Len(tools) + 1 - i].name,
         description |-> "Kubernetes tool: " \o tools[Len(tools) + 1 - i].name,
         inputSchema |-> InputSchema(tools[Len(tools) + 1 - i].name)]]

\* ToolsList behind an initialization gate: empty until initialize was answered
ToolsListAfterInitialize ==
    IF "initialize" \in called
    THEN [i \in ToolIndices |->
             [name |-> tools[i].name,
              description |-> "Kubernetes tool: " \o tools[i].name,
              inputSchema |-> InputSchema(tools[i].name)]]
    ELSE <<>>

ToolsList ==
    [i \in ToolIndices |->
        [name |-> tools[i].name,
         description |-> "Kubernetes tool: " \o tools[i].name,
         inputSchema |-> InputSchema(tools[i].name)]]

\* FindTool with the name test lost: the scan ends on the last instance
FindToolUnconditional(tool_name) == Len(tools)

\* the scan `for tool_instance in self.tools: if name matches: break`;
\* 0 stands for tool = None
FindTool(tool_name) ==
    LET found == {i \in ToolIndices : tools[i].name = tool_name}
    IN  IF found = {} THEN 0 ELSE CHOOSE i \in found : \A j \in found : i <= j

Success(request_id, result) == [jsonrpc |-> "2.0", id |-> request_id, result |-> result]

\* Error with a null result beside the error
ErrorWithNullResult(request_id, code, message) ==
    [jsonrpc |-> "2.0", id |-> request_id, result |-> None,
     error |-> [code |-> code, message |-> message]]

\* Error with a null id whatever the request's id
ErrorWithNullId(request_id, code, message) ==
    [jsonrpc |-> "2.0", id |-> None, error |-> [code |-> code, message |-> message]]

Error(request_id, code, message) ==
    [jsonrpc |-> "2.0", id |-> request_id, error |-> [code |-> code, message |-> message]]

Answered(response, ran, out, fwd, n) ==
    [raised |-> FALSE, exc |-> None, msg |-> None, response |-> response,
     executed |-> ran, outcome |-> out, forwards |-> fwd, uuids |-> n]

Escaped(exc, msg, fwd, n) ==
    [raised |-> TRUE, exc |-> exc, msg |-> msg, response |-> EmptyDict,
     executed |-> {}, outcome |-> NoExecution, forwards |-> fwd, uuids |-> n]

ToolNotFound(request_id, tool_name) ==
    Error(request_id, -32602, "Tool not found: " \o tool_name)

\* ToolResult with isError left at False
ToolResultNeverError(request_id, result) ==
    Success(request_id,
            [content |-> <<[type |-> "text", text |-> JsonDumps(result)]>>,
             isError |-> FALSE])

\* the envelope of a returned dict
ToolResult(request_id, result) ==
    Success(request_id,
            [content |-> <<[type |-> "text", text |-> JsonDumps(result)]>>,
             isError |-> "error" \in DOMAIN result])

\* ToolFailure without the except AttributeError clause
ToolFailureAlwaysInternal(request_id, exc, msg) ==
    Error(request_id, -32603, "Tool execution error: " \o msg)

\* the two except clauses around tool.execute
ToolFailure(request_id, exc, msg) ==
    IF exc = "AttributeError"
    THEN Error(request_id, -32602, "Tool configuration error: " \o msg)
    ELSE Error(request_id, -32603, "Tool execution error: " \o msg)

\* MethodNotFound with the code of an invalid request
MethodNotFoundAsInvalidRequest(request_id, method) ==
    Error(request_id, -32600, "Method not found: " \o method)

MethodNotFound(request_id, method) ==
    Error(request_id, -32601, "Method not found: " \o method)

ToolsCall(params, request_id, env, fwd, n) ==
    IF params.type # "object"
    THEN Escaped("AttributeError", "'" \o PyType(params.type) \o "' object has no attribute 'get'",
                 fwd, n)
    ELSE
    LET tool_name == Get(params.fields, "name", None)
        arguments == Get(params.fields, "arguments", Obj(EmptyDict))
        tool      == FindTool(tool_name)
    IN  IF tool = 0
        THEN Answered(ToolNotFound(request_id, tool_name), {}, NoExecution, fwd, n)
        ELSE
        LET r == IF arguments.type # "object"
                 THEN Raise("TypeError",
                            "execute() argument after ** must be a mapping, not "
                                \o PyType(arguments.type), fwd, n)
                 ELSE Execute(tool, arguments.fields, env, fwd, n)
            ran == IF arguments.type = "object" THEN {tool} ELSE {}
            out == OutcomeOf(r)
        IN  IF r.kind = "return"
            THEN Answered(ToolResult(request_id, r.result), ran, out, r.forwards, r.uuids)
            ELSE Answered(ToolFailure(request_id, r.exc, r.msg), ran, out,
                          r.forwards, r.uuids)

HandleMethod(method, params, request_id, env, fwd, n) ==
    IF method = "initialize"
    THEN Answered(Success(request_id,
                          [protocolVersion |-> protocol_version,
                           capabilities |->
                               [tools |-> EmptyDict,
                                resources |-> [subscribe |-> FALSE, listChanged |-> FALSE]],
                           serverInfo |-> server_info]),
                  {}, NoExecution, fwd, n)
    ELSE IF method = "initialized"
    THEN Answered(Success(request_id, EmptyDict), {}, NoExecution, fwd, n)
    ELSE IF method = "tools/list"
    THEN Answered(Success(request_id, [tools |-> ToolsList]), {}, NoExecution, fwd, n)
    ELSE IF method = "tools/call"
    THEN ToolsCall(params, request_id, env, fwd, n)
    ELSE Answered(MethodNotFound(request_id, method), {}, NoExecution, fwd, n)

(***************************************************************************)
(* POST /mcp/v1/message.  The body is bytes: text that is not JSON, bytes  *)
(* that are not UTF-8 text, or JSON text with its decoded value.           *)
(***************************************************************************)
\* json.loads(body): the value, or the class of the exception raised
JsonLoads(body) ==
    IF body.syntax = "malformed" THEN [raised |-> "JSONDecodeError"]
    ELSE IF body.syntax = "undecodable" THEN [raised |-> "UnicodeDecodeError"]
    ELSE [raised |-> None, value |-> body.value]

Reply(status, content, dispatched, ran, out, fwd, n) ==
    [status |-> status, body |-> content, dispatch |-> dispatched, executed |-> ran,
     outcome |-> out, forwards |-> fwd, uuids |-> n]

\* the Response built in the except json.JSONDecodeError clause
ParseErrorResponse ==
    [status_code |-> 400,
     content |-> [jsonrpc |-> "2.0", error |-> [code |-> -32700, message |-> "Parse error"]]]

\* the Response built in the except Exception clause
ServerErrorResponse(msg) ==
    [status_code |-> 500,
     content |-> [jsonrpc |-> "2.0", error |-> [code |-> -32603, message |-> msg]]]

\* OkResponse with a JSON-RPC error turned into a server error
OkResponseErrorStatus(response) ==
    [status_code |-> IF "error" \in DOMAIN response THEN 500 ELSE 200,
     content |-> response]

\* the Response built from the dispatcher's answer; status_code defaults to 200
OkResponse(response) == [status_code |-> 200, content |-> response]

handle_message(body, env, fwd, n) ==
    LET loaded  == JsonLoads(body)
        decoded == loaded.raised = None
        isdict  == decoded /\ loaded.value.type = "object"
        message == loaded.value.fields
        r == HandleMethod(Get(message, "method", None),
                          Get(message, "params", Obj(EmptyDict)),
                          Get(message, "id", None), env, fwd, n)
        response ==
            IF loaded.raised = "JSONDecodeError" THEN ParseErrorResponse
            ELSE IF ~decoded
            THEN ServerErrorResponse("'utf-8' codec can't decode byte 0xff in position 0: invalid start byte")
            ELSE IF ~isdict
            THEN ServerErrorResponse("'" \o PyType(loaded.value.type)
                                         \o "' object has no attribute 'get'")
            ELSE IF r.raised THEN ServerErrorResponse(r.msg)
            ELSE OkResponse(r.response)
    IN  IF ~isdict
        THEN Reply(response.status_code, response.content, "not entered", {},
                   NoExecution, fwd, n)
        ELSE Reply(response.status_code, response.content,
                   IF r.raised THEN "raised" ELSE "returned",
                   r.executed, r.outcome, r.forwards, r.uuids)

(***************************************************************************)
(* The routes of create_app: one POST /tools/<name> per registered tool,   *)
(* each closing over its own instance, plus GET /tools and GET /.          *)
(***************************************************************************)
\* routes whose endpoints all read the loop variable after the loop has ended
routesLateBound ==
    [i \in ToolIndices |-> [path |-> "/tools/" \o tools[i].name, tool |-> Len(tools)]]

routes == [i \in ToolIndices |-> [path |-> "/tools/" \o tools[i].name, tool |-> i]]

\* the router serves a path with the first route that matches it
RouteTool(path) ==
    LET matching == {k \in ToolIndices : routes[k].path = path}
    IN  IF matching = {} THEN 0
        ELSE routes[CHOOSE k \in matching : \A j \in matching : k <= j].tool

\* create_endpoint(tool).endpoint(params); params is <<>> for an empty body.
\* An exception leaving the endpoint is answered by the framework with 500
\* and a plain text body.
endpoint(tool, params, env, fwd, n) ==
    LET kwargs == IF params = <<>> THEN EmptyDict ELSE params[1]
        r      == Execute(tool, kwargs, env, fwd, n)
        out    == OutcomeOf(r)
    IN  IF r.kind = "return"
        THEN Reply(200, r.result, "not entered", {tool}, out, r.forwards, r.uuids)
        ELSE Reply(500, [text |-> "Internal Server Error"], "not entered", {tool}, out,
                   r.forwards, r.uuids)

list_tools ==
    [tools |->
        [i \in ToolIndices |->
            [name |-> tools[i].name, endpoint |-> "/tools/" \o tools[i].name,
             method |-> "POST"]]]

root ==
    [name |-> "Uber MCP Server", version |-> "0.1.0",
     description |-> "FastAPI-based MCP Server providing Kubernetes management tools",
     tools_endpoint |-> "/tools/{tool_name}", docs |-> "/docs",
     openapi |-> "/openapi.json"]

(***************************************************************************)
(* The requests drawn.                                                     *)
(***************************************************************************)
ToolNameSet == {tools[i].name : i \in ToolIndices}

ValidStart ==
    [pod_name |-> "test-pod", namespace |-> "default", local_port |-> 8080,
     remote_port |-> 80]

\* keyword arguments every tool is sent
CommonKwargs == {EmptyDict, ValidStart}

\* a start on the two ends of the port range
BoundaryStart == [ValidStart EXCEPT !.local_port = 1, !.remote_port = 65535]

\* ValidStart without the member k
Without(k) == [x \in DOMAIN ValidStart \ {k} |-> ValidStart[x]]

\* keyword arguments the port-forwarding tool is sent besides
PortForwardKwargs ==
    {[ValidStart EXCEPT !.local_port = l] : l \in {-1, 0, 65536, 70000}}
        \cup {[ValidStart EXCEPT !.remote_port = r] : r \in {-1, 0, 70000}}
        \cup {Without(k) : k \in DOMAIN ValidStart}
        \cup {BoundaryStart,
              [ValidStart EXCEPT !.pod_name = ""],
              ValidStart @@ [action |-> "start"],
              [action |-> "stop"], [action |-> "list"], [action |-> "restart"],
              [action |-> None], [action |-> "stop", forward_id |-> "bogus"]}
        \cup {[action |-> "stop", forward_id |-> Uuid(k)] : k \in 1..MaxUuids}

\* the tools that are sent every argument shape; the other tools are called
\* through both transports too, with no arguments
DetailedNames == {"helmlist", "kubernetesportforwarding", "nonexistent"}

KwargsFor(name) ==
    IF name \notin DetailedNames THEN {}
    ELSE IF FindTool(name) # 0 /\ tools[FindTool(name)].cls = "KubernetesPortForwardingTool"
    THEN CommonKwargs \cup PortForwardKwargs
    ELSE CommonKwargs

\* the "arguments" member of params: absent, an object, or an array
ArgumentsFor(name) ==
    {<<>>} \cup {<<Obj(kw)>> : kw \in KwargsFor(name)}
           \cup (IF name \in DetailedNames THEN {<<JsonArray>>} ELSE {})

RequestIds == Opt({"5"})

\* the ids drawn with params: a message without params, a call of a detailed
\* tool without arguments and a call with action "list" are sent with and
\* without an id, every other message with an id
IdsFor(p) ==
    IF p = <<>> THEN RequestIds
    ELSE IF p[1].type # "object" \/ "name" \notin DOMAIN p[1].fields THEN {<<"5">>}
    ELSE IF p[1].fields.name \notin DetailedNames THEN {<<"5">>}
    ELSE IF "arguments" \notin DOMAIN p[1].fields THEN RequestIds
    ELSE IF p[1].fields.arguments.type # "object" THEN {<<"5">>}
    ELSE IF p[1].fields.arguments.fields = [action |-> "list"] THEN RequestIds
    ELSE {<<"5">>}

Methods == {"initialize", "initialized", "tools/list", "tools/call"}

CallParams ==
    {<<>>, <<JsonArray>>, <<JsonNull>>, <<Obj(EmptyDict)>>,
     <<Obj([arguments |-> Obj(ValidStart)])>>}
        \cup UNION {{<<Obj([name |-> nm] @@ Field("arguments", a))>> :
                        a \in ArgumentsFor(nm)} :
                    nm \in ToolNameSet \cup {"nonexistent"}}

OtherParams == {<<>>, <<JsonArray>>, <<Obj([name |-> "helmlist"])>>}

ParamsFor(method) == IF method = <<"tools/call">> THEN CallParams ELSE OtherParams

Messages ==
    UNION {UNION {{Field("method", m) @@ Field("params", p) @@ Field("id", i) :
                      i \in IdsFor(p)} :
                  p \in ParamsFor(m)} :
           m \in Opt(Methods \cup {"invalid/method"})}

Bodies ==
    {[syntax |-> "malformed"], [syntax |-> "undecodable"],
     [syntax |-> "json", value |-> JsonArray]}
        \cup {[syntax |-> "json", value |-> Obj(msg)] : msg \in Messages}

\* The environments drawn for a call of tool i with kwargs: the port-forward
\* tool reads its environment only on a start that names a pod, and the tools
\* outside DetailedNames are run with the CLI or SDK call succeeding.
EnvsFor(i, kwargs) ==
    IF i \notin ToolIndices \/ tools[i].name \notin DetailedNames THEN {NormalEnv}
    ELSE IF tools[i].cls # "KubernetesPortForwardingTool" THEN StatelessEnvs
    ELSE IF kwargs = ValidStart THEN PortForwardEnvs
    ELSE IF kwargs = BoundaryStart THEN {[NormalEnv EXCEPT !.pod = "Pending"]}
    ELSE IF "remote_port" \in DOMAIN kwargs /\ ~validate_port(kwargs.remote_port)
    THEN {NormalEnv, [NormalEnv EXCEPT !.port_free = FALSE]}
    ELSE {NormalEnv}

\* the tool a message names and the keyword arguments it sends
NamedTool(body) ==
    IF body.syntax # "json" \/ body.value.type # "object" THEN 0
    ELSE LET params == Get(body.value.fields, "params", Obj(EmptyDict))
         IN  IF params.type # "object" THEN 0
             ELSE FindTool(Get(params.fields, "name", None))

NamedKwargs(body) ==
    IF body.syntax # "json" \/ body.value.type # "object" THEN EmptyDict
    ELSE LET params == Get(body.value.fields, "params", Obj(EmptyDict))
             arguments == Get(params.fields, "arguments", Obj(EmptyDict))
         IN  IF params.type # "object" THEN EmptyDict
             ELSE IF arguments.type # "object" THEN EmptyDict
             ELSE arguments.fields

(***************************************************************************)
(* SimpleMCPBridge (src/mcp_stdio_bridge.py): a loop that reads one line   *)
(* from stdin, answers it by HTTP calls to the server above, and writes    *)
(* one line to stdout.                                                     *)
(***************************************************************************)
\* the two scripts: mcp_stdio_bridge.py and mcp_stdio_bridge_https.py
Schemes == {"http", "https"}

\* what an outbound HTTP call meets: the server answers, or httpx raises
\* before the request reaches the server
NetOutcomes == {"ok", "ConnectError", "ConnectTimeout"}

\* what the probe meets: raise_for_status adds the error statuses
ProbeOutcomes == NetOutcomes \cup {"HTTPStatusError"}

\* str(e) of the exception raised
StrOf(e) ==
    IF e = "ConnectError" THEN "All connection attempts failed"
    ELSE IF e = "ConnectTimeout" THEN ""
    ELSE "Server error '500 Internal Server Error' for url"

\* str.replace(old, new) on s, kept as the term it is applied to
Replace(s, old, new) == [replace |-> s, old |-> old, new |-> new]

BridgeSuccess(request_id, result) ==
    [jsonrpc |-> "2.0", id |-> request_id, result |-> result]

BridgeError(request_id, message) ==
    [jsonrpc |-> "2.0", id |-> request_id,
     error |-> [code |-> -32603, message |-> message]]

\* what handle_request gives back: the response and the server's registry
Handled(response, fwd, n) ==
    [response |-> response, call |-> "none", forwards |-> fwd, uuids |-> n]

\* r, given back after an outbound call that met net
AfterCall(r, net) == [r EXCEPT !.call = net]

\* NetworkError with the response not given the id of the request
NetworkErrorWithoutId(bridge, request_id, net) == BridgeError(None, StrOf(net))

\* the except clause that a failed outbound call ends in: the http script
\* has one for network errors, the https script only except Exception
NetworkError(bridge, request_id, net) ==
    IF bridge = "http"
    THEN BridgeError(request_id, "Network error: " \o StrOf(net))
    ELSE BridgeError(request_id, StrOf(net))

\* the tools of the result built from the body of GET /tools
BridgeToolsList ==
    [i \in DOMAIN list_tools.tools |->
        [name |-> list_tools.tools[i].name,
         description |-> Replace(list_tools.tools[i].name, "kubernetes", "K8s "),
         inputSchema |-> [type |-> "object"]]]

\* the server's answer to POST /tools/<tool_name> with the JSON body
\* tool_args; no route matches an unregistered name
PostToolResponse(tool_name, tool_args, fwd, n) ==
    LET tool == RouteTool("/tools/" \o tool_name)
    IN  IF tool = 0
        THEN Reply(404, [detail |-> "Not Found"], "not entered", {}, NoExecution, fwd, n)
        ELSE endpoint(tool, <<tool_args.fields>>, NormalEnv, fwd, n)

\* the tools/call branch; params and arguments are tagged JSON values
BridgeToolsCall(bridge, params, request_id, net, fwd, n) ==
    IF params.type # "object"
    THEN Handled(BridgeError(request_id, "'" \o PyType(params.type)
                                             \o "' object has no attribute 'get'"),
                 fwd, n)
    ELSE IF net # "ok"
    THEN AfterCall(Handled(NetworkError(bridge, request_id, net), fwd, n), net)
    ELSE
    LET tool_name == Get(params.fields, "name", None)
        tool_args == Get(params.fields, "arguments", Obj(EmptyDict))
        response  == PostToolResponse(tool_name, tool_args, fwd, n)
    IN  IF response.status = 500
        THEN \* the body is plain text: response.json() raises
             AfterCall(Handled(BridgeError(request_id,
                                           "Expecting value: line 1 column 1 (char 0)"),
                               response.forwards, response.uuids), net)
        ELSE AfterCall(Handled(BridgeSuccess(request_id,
                                   [content |-> <<[type |-> "text",
                                                   text |-> JsonDumps(response.body)]>>]),
                               response.forwards, response.uuids), net)

\* SimpleMCPBridge.handle_request for a request that is a JSON object
handle_request(bridge, request, net, fwd, n) ==
    LET method     == Get(request, "method", None)
        params     == Get(request, "params", Obj(EmptyDict))
        request_id == Get(request, "id", None)
    IN  IF method = "initialize"
        THEN Handled(BridgeSuccess(request_id,
                         [protocolVersion |-> "2024-11-05",
                          capabilities |-> [tools |-> EmptyDict],
                          serverInfo |-> [name |-> "uber-mcp-server",
                                          version |-> "0.1.0"]]),
                     fwd, n)
        ELSE IF method = "tools/list"
        THEN IF net # "ok"
             THEN AfterCall(Handled(NetworkError(bridge, request_id, net), fwd, n), net)
             ELSE AfterCall(Handled(BridgeSuccess(request_id, [tools |-> BridgeToolsList]),
                                    fwd, n), net)
        ELSE IF method = "tools/call"
        THEN BridgeToolsCall(bridge, params, request_id, net, fwd, n)
        ELSE Handled([jsonrpc |-> "2.0", id |-> request_id,
                      error |-> [code |-> -32601,
                                 message |-> "Method not found: " \o method]],
                     fwd, n)

\* the line written when the probe of run fails: the http script tells
\* network errors from the rest, the https script has one clause
ProbeError(bridge, net) ==
    [jsonrpc |-> "2.0",
     error |-> [code |-> -32603,
                message |->
                    IF bridge = "https"
                    THEN "FastAPI server not running at https://localhost:9543. Start it with 'python run_server_https.py' first."
                    ELSE IF net \in NetOutcomes
                    THEN "FastAPI server not running at http://localhost:8080. Start it with 'nix run' first."
                    ELSE "Error connecting to server: " \o StrOf(net)]]

(***************************************************************************)
(* The lines drawn for stdin.                                              *)
(***************************************************************************)
MaxLines == 3

BridgeCall(name, kwargs) ==
    <<Obj([name |-> name] @@ (IF kwargs = <<>> THEN EmptyDict
                              ELSE [arguments |-> Obj(kwargs[1])]))>>

BridgeRequest(method, params, id) ==
    Field("method", method) @@ Field("params", params) @@ Field("id", id)

BridgeRequests ==
    {BridgeRequest(<<"initialize">>, <<>>, <<"a">>),
     BridgeRequest(<<"initialized">>, <<>>, <<"b">>),
     BridgeRequest(<<"tools/list">>, <<>>, <<"a">>),
     BridgeRequest(<<"tools/list">>, <<>>, <<>>),
     BridgeRequest(<<"invalid/method">>, <<>>, <<"b">>),
     BridgeRequest(<<"tools/call">>, <<>>, <<"a">>),
     BridgeRequest(<<"tools/call">>, <<JsonArray>>, <<"b">>),
     BridgeRequest(<<"tools/call">>, BridgeCall("helmlist", <<>>), <<"a">>),
     BridgeRequest(<<"tools/call">>, BridgeCall("nonexistent", <<>>), <<"b">>),
     BridgeRequest(<<"tools/call">>,
                   BridgeCall("kubernetesportforwarding", <<ValidStart>>), <<"a">>),
     BridgeRequest(<<"tools/call">>,
                   BridgeCall("kubernetesportforwarding", <<[action |-> "list"]>>),
                   <<"b">>)}

Lines ==
    {[syntax |-> "malformed"], [syntax |-> "undecodable"],
     [syntax |-> "json", value |-> JsonArray]}
        \cup {[syntax |-> "json", value |-> Obj(msg)] : msg \in BridgeRequests}

\* a client that sends one line of each kind: not JSON, not an object, a
\* request answered without a call and a request answered by a call
FewLines ==
    {[syntax |-> "malformed"], [syntax |-> "json", value |-> JsonArray],
     [syntax |-> "json", value |-> Obj(BridgeRequest(<<"initialized">>, <<>>, <<"b">>))],
     [syntax |-> "json",
      value |-> Obj(BridgeRequest(<<"tools/call">>, BridgeCall("nonexistent", <<>>), <<"b">>))]}

\* the outbound call of a request can fail only if the request makes one
NetFor(request) ==
    IF Get(request, "method", None) \in {"tools/list", "tools/call"}
    THEN NetOutcomes ELSE {"ok"}

(***************************************************************************)
(* The state machine: one action per route.                                *)
(***************************************************************************)
\* the server after construction
InitServer ==
    /\ active_forwards = <<>>
    /\ uuids = 0
    /\ http = [route |-> "none", request |-> None, status |-> 0, body |-> EmptyDict]
    /\ dispatch = "not entered"
    /\ executed = {}
    /\ outcome = NoExecution
    /\ listed = [route |-> "none", names |-> <<>>]
    /\ called = {}
    /\ world = NormalEnv
    /\ before = <<>>
    /\ started = <<>>
    /\ stopped = {}

\* a bridge at the entry of run
InitBridge ==
    /\ pc = "probe"
    /\ inflight = <<>>
    /\ stdout = <<>>
    /\ handled = <<>>
    /\ lines_read = 0
    /\ probed = "none"
    /\ calls = <<>>
    /\ log = <<>>

(***************************************************************************)
(* Threads that call the methods of the one port-forwarding instance, the  *)
(* callers that its threading.Lock is there for.  (The endpoints of main   *)
(* are coroutines that call execute without awaiting, so requests served   *)
(* by one event loop do not overlap.)                                      *)
(***************************************************************************)
MaxThreads == 2

Threads == 1..MaxThreads

\* the forward_id that stops are called with: the one of the first start
StopIds == {Uuid(1)}

\* a thread's call: its arguments (forward_id, local_port), the locals the
\* method has set (forward_id of a start, result), and what the call met:
\* whether the host port was free, the pod's phase, and whether the
\* registry knew the forward_id (stop) or the local_port (start) when the
\* call began
NoCall ==
    [kind |-> "none", forward_id |-> None, local_port |-> 0, free |-> FALSE,
     phase |-> None, known |-> FALSE, result |-> EmptyDict]

InitThreads ==
    /\ tpc = [t \in Threads |-> "idle"]
    /\ op = [t \in Threads |-> NoCall]
    /\ holders = {}
    /\ stop_count = [f \in StopIds |-> 0]

Init == InitServer /\ InitBridge /\ scheme = "http" /\ stdin = Lines /\ InitThreads

\* a decoded JSON-RPC message is the request of an exchange
IsMessage(x) ==
    /\ x.route = "POST /mcp/v1/message"
    /\ x.request.syntax = "json"
    /\ x.request.value.type = "object"

MethodOf(x) == Get(x.request.value.fields, "method", None)

ParamsOf(x) == Get(x.request.value.fields, "params", Obj(EmptyDict))

IsRpcList(x) == IsMessage(x) /\ MethodOf(x) = "tools/list" /\ x.status = 200

IsListing(x) == x.route = "GET /tools" \/ IsRpcList(x)

\* the names of a listing answer, in the order of the answer
ListedNames(x) ==
    LET entries == IF x.route = "GET /tools" THEN x.body.tools ELSE x.body.result.tools
    IN  [k \in DOMAIN entries |-> entries[k].name]

Handshake == {"initialize", "initialized"}

\* the handshake method that the exchange x had the dispatcher answer, if any
HandshakeOf(x, dispatched) ==
    IF IsMessage(x) /\ dispatched = "returned" /\ MethodOf(x) \in Handshake
    THEN {MethodOf(x)} ELSE {}

\* the forward_id of a result that reports a start, and of one that reports a stop
StartedBy(out) ==
    IF out.kind = "return" /\ "forward_id" \in DOMAIN out.result
          /\ out.result.status = "active"
    THEN <<out.result.forward_id>> ELSE <<>>

StoppedBy(out) ==
    IF out.kind = "return" /\ "forward_id" \in DOMAIN out.result
          /\ out.result.status = "stopped"
    THEN {out.result.forward_id} ELSE {}

Respond(route, request, env, r) ==
    /\ r.uuids <= MaxUuids
    /\ world' = env
    /\ before' = active_forwards
    /\ started' = started \o StartedBy(r.outcome)
    /\ stopped' = stopped \cup StoppedBy(r.outcome)
    /\ active_forwards' = r.forwards
    /\ uuids' = r.uuids
    /\ http' = [route |-> route, request |-> request, status |-> r.status, body |-> r.body]
    /\ dispatch' = r.dispatch
    /\ executed' = r.executed
    /\ outcome' = r.outcome
    /\ listed' = IF IsListing(http) THEN [route |-> http.route, names |-> ListedNames(http)]
                  ELSE listed
    /\ called' = called \cup HandshakeOf([route |-> route, request |-> request], r.dispatch)
    /\ UNCHANGED <<bridgeVars, threadVars>>

PostMessage ==
    \E body \in Bodies :
        \E env \in EnvsFor(NamedTool(body), NamedKwargs(body)) :
            Respond("POST /mcp/v1/message", body, env,
                    handle_message(body, env, active_forwards, uuids))

PostTool ==
    \E i \in ToolIndices :
        \E params \in Opt(KwargsFor(tools[i].name)) :
            \E env \in EnvsFor(i, IF params = <<>> THEN EmptyDict ELSE params[1]) :
                Respond("POST /tools/{name}", [name |-> tools[i].name, params |-> params], env,
                        endpoint(RouteTool("/tools/" \o tools[i].name), params, env,
                                 active_forwards, uuids))

GetTools ==
    Respond("GET /tools", None, NormalEnv,
            Reply(200, list_tools, "not entered", {}, NoExecution, active_forwards, uuids))

GetRoot ==
    Respond("GET /", None, NormalEnv,
            Reply(200, root, "not entered", {}, NoExecution, active_forwards, uuids))

Next == PostMessage \/ PostTool \/ GetTools \/ GetRoot

Spec == Init /\ [][Next]_vars

(***************************************************************************)
(* The bridge process: run probes the server, then loops over stdin.       *)
(***************************************************************************)
\* MayRead with the next readline not waiting for the request being handled
MayReadAhead == TRUE

\* readline is awaited only when the handle_request of the line before has
\* returned and its response is written
MayRead == inflight = <<>>

\* where run goes after the probe met net
AfterProbeAlwaysLoop(net) == "loop"

AfterProbe(net) == IF net = "ok" THEN "loop" ELSE "failed"

\* the probe GET / of run: on a failure the error line is written and run returns
Probe ==
    /\ pc = "probe"
    /\ \E net \in ProbeOutcomes :
           /\ probed' = net
           /\ pc' = AfterProbe(net)
           /\ stdout' = IF net = "ok" THEN stdout
                        ELSE Append(stdout, ProbeError(scheme, net))
           /\ calls' = IF net = "ok" THEN calls ELSE Append(calls, net)
    /\ UNCHANGED <<serverVars, inflight, handled, lines_read, scheme, log, stdin, threadVars>>

\* the kind of a line, and what the loop body raises for it before any
\* response is built: json.loads or decode raises, or request.get does
KindOf(line) ==
    IF line.syntax # "json" THEN line.syntax
    ELSE IF line.value.type = "object" THEN "object" ELSE "not object"

RaisedBy(line) ==
    IF JsonLoads(line).raised # None THEN JsonLoads(line).raised
    ELSE IF line.value.type # "object" THEN "AttributeError"
    ELSE None

\* the except clauses of the loop with only json.JSONDecodeError caught
CaughtOnlyDecodeError(raised) == IF raised = "JSONDecodeError" THEN "loop" ELSE "crashed"

\* the except clauses of the loop with json.JSONDecodeError not caught
CaughtButDecodeError(raised) == IF raised = "JSONDecodeError" THEN "crashed" ELSE "loop"

\* the except clauses of the loop: each logs, and the while goes on
Caught(raised) == "loop"

\* one readline that returns a line.  A line that is not JSON, not UTF-8 or
\* not a JSON object raises in the loop body, is logged and answered by
\* nothing; a JSON object is passed to handle_request.
ReadLine ==
    /\ pc = "loop"
    /\ MayRead
    /\ lines_read < MaxLines
    /\ lines_read' = lines_read + 1
    /\ \E line \in stdin :
           /\ log' = Append(log, KindOf(line))
           /\ IF RaisedBy(line) = None
              THEN /\ inflight' = Append(inflight, line.value.fields)
                   /\ handled' = Append(handled, line.value.fields)
                   /\ pc' = pc
              ELSE /\ pc' = Caught(RaisedBy(line))
                   /\ UNCHANGED <<inflight, handled>>
    /\ UNCHANGED <<serverVars, stdout, scheme, probed, calls, stdin, threadVars>>

\* readline returns b"" at end-of-stream: the loop breaks and run returns
ReadEof ==
    /\ pc = "loop"
    /\ MayRead
    /\ pc' = "eof"
    /\ log' = Append(log, "eof")
    /\ UNCHANGED <<serverVars, inflight, stdout, handled, lines_read, scheme, probed, calls,
                   stdin, threadVars>>

\* handle_request returns for a request in flight and its response is written
Answer ==
    /\ pc = "loop"
    /\ \E k \in DOMAIN inflight :
           \E net \in NetFor(inflight[k]) :
               LET r == handle_request(scheme, inflight[k], net, active_forwards, uuids)
               IN  /\ r.uuids <= MaxUuids
                   /\ active_forwards' = r.forwards
                   /\ uuids' = r.uuids
                   /\ stdout' = Append(stdout, r.response)
                   /\ calls' = Append(calls, r.call)
                   /\ inflight' = [j \in 1..(Len(inflight) - 1) |->
                                      IF j < k THEN inflight[j] ELSE inflight[j + 1]]
    /\ UNCHANGED <<http, dispatch, executed, outcome, listed, called, world, before,
                   started, stopped, pc, handled, lines_read, scheme, probed, log, stdin,
                   threadVars>>

BridgeNext == Probe \/ ReadLine \/ ReadEof \/ Answer

\* either script is run
BridgeInit == InitServer /\ InitBridge /\ scheme \in Schemes /\ stdin = Lines /\ InitThreads

BridgeSpec == BridgeInit /\ [][BridgeNext]_vars

\* handle_request returns: every outbound call has httpx's timeout and every
\* exception is caught; and stdin is closed by the client at some time
BridgeFairness == WF_vars(Answer) /\ WF_vars(ReadEof)

\* either script, run by the client of FewLines
BridgeLiveInit ==
    InitServer /\ InitBridge /\ scheme \in Schemes /\ stdin = FewLines /\ InitThreads

BridgeLiveSpec == BridgeLiveInit /\ [][BridgeNext]_vars /\ BridgeFairness

(***************************************************************************)
(* Concurrent calls of _start_port_forward, _stop_port_forward and         *)
(* _list_port_forwards, one step per statement that another thread can     *)
(* run between.                                                            *)
(***************************************************************************)
\* the local ports that starts are called with
StartPorts == {ValidStart.local_port, BoundaryStart.local_port}

otherVars == <<http, dispatch, executed, outcome, listed, called, world, before, started,
               stopped, bridgeVars>>

\* Lock.acquire that never blocks
CanAcquireAlways(held) == TRUE

\* threading.Lock: acquire returns only while no thread holds the lock
CanAcquire(held) == held = {}

\* start with the assignment to the registry outside the with block
StoreForwardInfoUnlocked == "insert"

\* where start goes to store the forward info: into `with self._lock`
StoreForwardInfo == "acquire"

\* the arguments of the start that thread t runs
StartArgs(t) == [ValidStart EXCEPT !.local_port = op[t].local_port]

\* what start returns for thread t in the environment env, as the
\* sequential method computes it from the same arguments
StartResult(t, env, n) ==
    start_port_forward(StartArgs(t).pod_name, StartArgs(t).namespace,
                       StartArgs(t).local_port, StartArgs(t).remote_port,
                       env, <<>>, n).result

Goto(t, loc) == tpc' = [tpc EXCEPT ![t] = loc]

\* a request for a start arrives; both ports are valid (lines 85-92)
CallStart(t) ==
    /\ tpc[t] = "idle"
    /\ \E port \in StartPorts :
           op' = [op EXCEPT ![t] =
                     [NoCall EXCEPT !.kind = "start", !.local_port = port,
                                    !.known = \E i \in DOMAIN active_forwards :
                                                  active_forwards[i].local_port = port]]
    /\ Goto(t, "probe")
    /\ UNCHANGED <<active_forwards, uuids, holders, stop_count, otherVars>>

CallStop(t) ==
    /\ tpc[t] = "idle"
    /\ \E f \in StopIds :
           op' = [op EXCEPT ![t] =
                     [NoCall EXCEPT !.kind = "stop", !.forward_id = f,
                                    !.known = HasForward(active_forwards, f)]]
    /\ Goto(t, "acquire")
    /\ UNCHANGED <<active_forwards, uuids, holders, stop_count, otherVars>>

CallList(t) ==
    /\ tpc[t] = "idle"
    /\ op' = [op EXCEPT ![t] = [NoCall EXCEPT !.kind = "list"]]
    /\ Goto(t, "acquire")
    /\ UNCHANGED <<active_forwards, uuids, holders, stop_count, otherVars>>

\* lines 95-96: the bind probe of the host port
ProbePort(t) ==
    /\ tpc[t] = "probe"
    /\ \E free \in BOOLEAN :
           LET env == [NormalEnv EXCEPT !.port_free = free]
           IN  IF is_port_available(op[t].local_port, env)
               THEN /\ op' = [op EXCEPT ![t].free = free]
                    /\ Goto(t, "lookup")
               ELSE /\ op' = [op EXCEPT ![t].free = free,
                                        ![t].result = StartResult(t, [env EXCEPT !.port_free = FALSE], uuids)]
                    /\ Goto(t, "return")
    /\ UNCHANGED <<active_forwards, uuids, holders, stop_count, otherVars>>

\* lines 98-116: the pod lookup, then the forward_id is drawn
LookupPod(t) ==
    /\ tpc[t] = "lookup"
    /\ \E phase \in {"Running", "Pending", "ApiException404"} :
           IF phase = "Running"
           THEN /\ uuids < MaxUuids
                /\ uuids' = uuids + 1
                /\ op' = [op EXCEPT ![t].phase = phase, ![t].forward_id = uuid4(uuids)]
                /\ Goto(t, StoreForwardInfo)
           ELSE /\ uuids' = uuids
                /\ op' = [op EXCEPT ![t].phase = phase,
                                    ![t].result = StartResult(t, [NormalEnv EXCEPT !.pod = phase], uuids)]
                /\ Goto(t, "return")
    /\ UNCHANGED <<active_forwards, holders, stop_count, otherVars>>

\* `with self._lock:` is entered (lines 119, 139, 151)
Acquire(t) ==
    /\ tpc[t] = "acquire"
    /\ CanAcquire(holders)
    /\ holders' = holders \cup {t}
    /\ Goto(t, IF op[t].kind = "start" THEN "insert"
               ELSE IF op[t].kind = "stop" THEN "check" ELSE "iterate")
    /\ UNCHANGED <<active_forwards, uuids, op, stop_count, otherVars>>

\* lines 120-126, and the result of lines 128-135
Insert(t) ==
    /\ tpc[t] = "insert"
    /\ active_forwards' =
           SetItem(active_forwards,
                   [forward_id |-> op[t].forward_id] @@ StartArgs(t) @@ [status |-> "active"])
    /\ op' = [op EXCEPT ![t].result =
                 [status |-> "active", forward_id |-> op[t].forward_id] @@ StartArgs(t)]
    /\ Goto(t, "release")
    /\ UNCHANGED <<uuids, holders, stop_count, otherVars>>

\* lines 140-141: the membership test
Check(t) ==
    /\ tpc[t] = "check"
    /\ IF HasForward(active_forwards, op[t].forward_id)
       THEN op' = op /\ Goto(t, "delete")
       ELSE /\ op' = [op EXCEPT ![t].result =
                         stop_port_forward(op[t].forward_id, <<>>, uuids).result]
            /\ Goto(t, "release")
    /\ UNCHANGED <<active_forwards, uuids, holders, stop_count, otherVars>>

\* lines 143-145 and the result of line 147; a key that has gone since the
\* membership test raises KeyError
Delete(t) ==
    /\ tpc[t] = "delete"
    /\ IF HasForward(active_forwards, op[t].forward_id)
       THEN /\ active_forwards' = RemoveForward(active_forwards, op[t].forward_id)
            /\ op' = [op EXCEPT ![t].result =
                         [status |-> "stopped", forward_id |-> op[t].forward_id]]
            /\ stop_count' = [stop_count EXCEPT ![op[t].forward_id] = @ + 1]
       ELSE /\ op' = [op EXCEPT ![t].result = [raised |-> "KeyError"]]
            /\ UNCHANGED <<active_forwards, stop_count>>
    /\ Goto(t, "release")
    /\ UNCHANGED <<uuids, holders, otherVars>>

\* lines 152-155 and the result of line 157
Iterate(t) ==
    /\ tpc[t] = "iterate"
    /\ op' = [op EXCEPT ![t].result = list_port_forwards(active_forwards, uuids).result]
    /\ Goto(t, "release")
    /\ UNCHANGED <<active_forwards, uuids, holders, stop_count, otherVars>>

\* the with block is left
Release(t) ==
    /\ tpc[t] = "release"
    /\ holders' = holders \ {t}
    /\ Goto(t, "return")
    /\ UNCHANGED <<active_forwards, uuids, op, stop_count, otherVars>>

\* the method returns op[t].result to its caller and the thread is free
ReturnResult(t) ==
    /\ tpc[t] = "return"
    /\ op' = [op EXCEPT ![t] = NoCall]
    /\ Goto(t, "idle")
    /\ UNCHANGED <<active_forwards, uuids, holders, stop_count, otherVars>>

ThreadNext ==
    \E t \in Threads :
        \/ CallStart(t) \/ CallStop(t) \/ CallList(t)
        \/ ProbePort(t) \/ LookupPod(t)
        \/ Acquire(t) \/ Insert(t) \/ Check(t) \/ Delete(t) \/ Iterate(t)
        \/ Release(t) \/ ReturnResult(t)

ThreadSpec == Init /\ [][ThreadNext]_vars

(***************************************************************************)
(* Properties.                                                             *)
(***************************************************************************)
IsToolsCall == IsMessage(http) /\ MethodOf(http) = "tools/call"

CalledName == Get(ParamsOf(http).fields, "name", None)

IsToolPost == http.route = "POST /tools/{name}"

\* C1: a tools/call whose params name no registered tool, the name being
\* absent included, is answered with status 200 by a JSON-RPC error of code
\* -32602 and message "Tool not found: <name>", without a result, and no
\* tool's execute is invoked.
C1_UnknownToolIsInvalidParams ==
    (IsToolsCall /\ ParamsOf(http).type = "object" /\ CalledName \notin ToolNameSet)
        => /\ http.status = 200
           /\ DOMAIN http.body = {"jsonrpc", "id", "error"}
           /\ http.body.error = [code |-> -32602,
                                 message |-> "Tool not found: " \o CalledName]
           /\ executed = {}
           /\ outcome = NoExecution

C1_Witness ==
    /\ IsToolsCall
    /\ ParamsOf(http) = Obj([name |-> "nonexistent", arguments |-> Obj(ValidStart)])
    /\ http.body.error.code = -32602
    /\ active_forwards # <<>>

\* C2: a request whose method is none of initialize, initialized, tools/list
\* and tools/call is answered by an error of code -32601 and message
\* "Method not found: <method>", whatever its params, and no tool is executed.
C2_UnknownMethodIsMethodNotFound ==
    (IsMessage(http) /\ MethodOf(http) \notin Methods)
        => /\ http.status = 200
           /\ DOMAIN http.body = {"jsonrpc", "id", "error"}
           /\ http.body.error = [code |-> -32601,
                                 message |-> "Method not found: " \o MethodOf(http)]
           /\ executed = {}
           /\ outcome = NoExecution

C2_Witness ==
    /\ IsMessage(http)
    /\ MethodOf(http) = "invalid/method"
    /\ ParamsOf(http) = Obj([name |-> "helmlist"])
    /\ http.body.error.code = -32601

\* C3: a body of POST /mcp/v1/message that is not valid JSON is answered with
\* status 400 and a JSON-RPC error of code -32700 ("Parse error"), and the
\* dispatcher is not entered for it.
C3_NonJsonBodyIsParseError ==
    (http.route = "POST /mcp/v1/message" /\ http.request.syntax # "json")
        => /\ http.status = 400
           /\ http.body.error = [code |-> -32700, message |-> "Parse error"]
           /\ dispatch = "not entered"

C5_TransportsReachTheSameTool ==
    /\ IsRpcList(http)
          => \A nm \in ToolNameSet :
                 Cardinality({k \in DOMAIN http.body.result.tools :
                                  http.body.result.tools[k].name = nm}) = 1
    /\ (IsToolsCall /\ executed # {})
          => executed = {RouteTool("/tools/" \o CalledName)}
    /\ (IsToolPost /\ executed # {})
          => executed = {FindTool(http.request.name)}

C5_Witness ==
    /\ IsToolsCall
    /\ executed # {}
    /\ CalledName = "kubernetesportforwarding"
    /\ executed = {RouteTool("/tools/kubernetesportforwarding")}
    /\ outcome.kind = "return"
    /\ "forward_id" \in DOMAIN outcome.result

\* C6: a dict returned by the tool is delivered by tools/call as a result,
\* not as an error object, whose isError is TRUE exactly when the dict has
\* the key "error".
C6_IsErrorMirrorsErrorKey ==
    (IsToolsCall /\ outcome.kind = "return")
        => /\ http.status = 200
           /\ DOMAIN http.body = {"jsonrpc", "id", "result"}
           /\ http.body.result.content
                  = <<[type |-> "text", text |-> JsonDumps(outcome.result)]>>
           /\ http.body.result.isError = ("error" \in DOMAIN outcome.result)

C6_Witness ==
    /\ IsToolsCall
    /\ outcome.kind = "return"
    /\ "error" \in DOMAIN outcome.result
    /\ http.body.result.isError

\* C7: POST /tools/<name> with an object body or an empty body is answered
\* with status 200 and the tool's result dict as the body, also when the tool
\* call fails.
C7_ToolPostIsAlways200 ==
    IsToolPost => (http.status = 200 /\ outcome.kind = "return"
                       /\ http.body = outcome.result)

\* C8 as stated, read on the bodies that json.loads decodes: POST
\* /mcp/v1/message answers 200 whenever the dispatcher returns, 400 only when
\* the body fails to parse as JSON, and 500 only when an exception leaves the
\* dispatcher.
C8_StatusFollowsDispatch ==
    (http.route = "POST /mcp/v1/message" /\ http.request.syntax = "json")
        => /\ dispatch = "returned" => http.status = 200
           /\ http.status # 400
           /\ http.status = 500 => dispatch = "raised"

\* C8 as amended: POST /mcp/v1/message answers 200 whenever the dispatcher
\* returns, 400 only when the body fails to parse as JSON, and 500 only when
\* an exception other than json.JSONDecodeError is raised while the message
\* is handled: one that leaves the dispatcher, or one raised before the
\* dispatcher is entered.
C8_StatusFollowsHandling ==
    http.route = "POST /mcp/v1/message"
        => /\ http.status \in {200, 400, 500}
           /\ dispatch = "returned" => http.status = 200
           /\ http.status = 400 => http.request.syntax # "json"
           /\ http.status = 500
                 => \/ dispatch = "raised"
                    \/ /\ dispatch = "not entered"
                       /\ JsonLoads(http.request).raised # "JSONDecodeError"
                       /\ ~IsMessage(http)

C8_Witness ==
    /\ http.route = "POST /mcp/v1/message"
    /\ http.status = 500
    /\ dispatch = "not entered"
    /\ http.request = [syntax |-> "json", value |-> JsonArray]

\* C9: every response of the dispatcher has jsonrpc "2.0" and exactly one of
\* the keys result and error.
C9_ExactlyOneOfResultAndError ==
    (http.route = "POST /mcp/v1/message" /\ dispatch = "returned")
        => /\ http.body.jsonrpc = "2.0"
           /\ ("result" \in DOMAIN http.body) # ("error" \in DOMAIN http.body)

C9_Witness ==
    /\ http.route = "POST /mcp/v1/message"
    /\ dispatch = "returned"
    /\ outcome.kind = "raise"
    /\ "error" \in DOMAIN http.body
    /\ "result" \notin DOMAIN http.body

\* C10: a listing answers the names in the order of registration, be it
\* tools/list or GET /tools, and in the order of every listing answered
\* before it.
C10_ListingOrderIsRegistrationOrder ==
    IsListing(http)
        => /\ ListedNames(http) = ToolNames
           /\ listed.route # "none" => ListedNames(http) = listed.names

C10_Witness ==
    /\ IsRpcList(http)
    /\ listed.route = "POST /mcp/v1/message"
    /\ listed.names = ListedNames(http)
    /\ Len(listed.names) = Len(tools)
    /\ active_forwards # <<>>

\* C11: the dispatcher has no initialization gate.  initialize and
\* initialized are always answered with a result, and whatever handshake
\* methods were answered before, in whatever order, tools/list answers every
\* registered tool and tools/call runs the tool that its params name.
C11_NoInitializationGate ==
    IsMessage(http)
        => /\ MethodOf(http) \in Handshake
                 => /\ http.status = 200
                    /\ DOMAIN http.body = {"jsonrpc", "id", "result"}
                    /\ MethodOf(http) = "initialized" => http.body.result = EmptyDict
                    /\ MethodOf(http) = "initialize"
                          => http.body.result.protocolVersion = protocol_version
           /\ MethodOf(http) = "tools/list"
                 => /\ http.status = 200
                    /\ "result" \in DOMAIN http.body
                    /\ [k \in DOMAIN http.body.result.tools |->
                           http.body.result.tools[k].name]
                          = [i \in ToolIndices |-> tools[i].name]
           /\ (MethodOf(http) = "tools/call" /\ ParamsOf(http).type = "object"
                  /\ CalledName \in ToolNameSet
                  /\ Get(ParamsOf(http).fields, "arguments", Obj(EmptyDict)).type = "object")
                 => /\ http.status = 200
                    /\ executed = {FindTool(CalledName)}
                    /\ outcome.kind = "return" => "result" \in DOMAIN http.body

C11_Witness ==
    /\ called = {"initialized"}
    /\ IsToolsCall
    /\ executed # {}
    /\ CalledName = "kubernetesportforwarding"
    /\ outcome.kind = "return"
    /\ "forward_id" \in DOMAIN outcome.result
    /\ "result" \in DOMAIN http.body

(***************************************************************************)
(* The port-forwarding tool, called through either transport.              *)
(***************************************************************************)
\* the keyword arguments that the last exchange called execute with
LastKwargs ==
    IF IsToolPost
    THEN IF http.request.params = <<>> THEN EmptyDict ELSE http.request.params[1]
    ELSE IF IsToolsCall THEN NamedKwargs(http.request)
    ELSE EmptyDict

IsPortForwardCall ==
    \E i \in executed : tools[i].cls = "KubernetesPortForwardingTool"

LastAction == Get(LastKwargs, "action", "start")

IsStart == IsPortForwardCall /\ LastAction = "start"

\* the start names a pod and a namespace and carries both ports
IsFullStart ==
    /\ IsStart
    /\ DOMAIN ValidStart \subseteq DOMAIN LastKwargs
    /\ LastKwargs.pod_name \notin {None, ""}
    /\ LastKwargs.namespace \notin {None, ""}

InRange(port) == port \in 1..65535

\* the registry entry of forward_id f for the values of the last request
EntryFor(f) ==
    [forward_id |-> f, pod_name |-> LastKwargs.pod_name,
     namespace |-> LastKwargs.namespace, local_port |-> LastKwargs.local_port,
     remote_port |-> LastKwargs.remote_port, status |-> "active"]

ReturnedError == outcome.kind = "return" /\ DOMAIN outcome.result = {"error"}

C13_ListShowsStartedForwards ==
    (IsPortForwardCall /\ LastAction = "list"
        /\ \E k \in DOMAIN started : started[k] \notin stopped)
        => /\ outcome.kind = "return"
           /\ \A k \in DOMAIN started :
                  started[k] \notin stopped
                      => \E e \in DOMAIN outcome.result.forwards :
                             outcome.result.forwards[e].forward_id = started[k]

\* C14: a stop with the forward_id of a registered forward returns
\* {status: "stopped", forward_id} and removes that entry and no other; a stop
\* with a forward_id that is not registered, one stopped before included,
\* returns the not-found error and leaves the registry as it was; and a
\* stopped forward_id is never in the registry again, which is what list reads.
C14_StopRemovesTheEntry ==
    /\ \A f \in stopped : ~HasForward(active_forwards, f)
    /\ (IsPortForwardCall /\ LastAction = "stop" /\ ~FalsyStr(LastKwargs, "forward_id"))
          => IF \E i \in DOMAIN before : before[i].forward_id = LastKwargs.forward_id
             THEN /\ outcome.kind = "return"
                  /\ outcome.result = [status |-> "stopped",
                                       forward_id |-> LastKwargs.forward_id]
                  /\ active_forwards
                         = SelectSeq(before,
                                     LAMBDA e : e.forward_id # LastKwargs.forward_id)
                  /\ Len(active_forwards) = Len(before) - 1
             ELSE /\ outcome.kind = "return"
                  /\ outcome.result = [error |-> "Forward ID '" \o LastKwargs.forward_id
                                                     \o "' not found"]
                  /\ active_forwards = before

C14_Witness ==
    /\ IsPortForwardCall
    /\ LastAction = "stop"
    /\ ~FalsyStr(LastKwargs, "forward_id")
    /\ LastKwargs.forward_id \in stopped
    /\ ReturnedError
    /\ before # <<>>
    /\ active_forwards = before

\* C15: a start with both ports in [1,65535] for which the pod lookup reports
\* phase Running returns status "active", a forward_id and the request's
\* pod_name, namespace, local_port and remote_port, and adds exactly one
\* entry to the registry, under that forward_id, with the same four values
\* and status "active".
C15_StartReturnsAndRegistersTheRequest ==
    (IsFullStart /\ InRange(LastKwargs.local_port) /\ InRange(LastKwargs.remote_port)
        /\ world.port_free /\ world.config_ok /\ world.pod = "Running")
        => /\ outcome.kind = "return"
           /\ outcome.api
           /\ DOMAIN outcome.result = {"status", "forward_id", "pod_name", "namespace",
                                       "local_port", "remote_port"}
           /\ outcome.result.status = "active"
           /\ outcome.result.pod_name = LastKwargs.pod_name
           /\ outcome.result.namespace = LastKwargs.namespace
           /\ outcome.result.local_port = LastKwargs.local_port
           /\ outcome.result.remote_port = LastKwargs.remote_port
           /\ ~HasForward(before, outcome.result.forward_id)
           /\ active_forwards = Append(before, EntryFor(outcome.result.forward_id))

C15_Witness ==
    /\ IsToolPost
    /\ IsFullStart
    /\ LastKwargs = ValidStart
    /\ outcome.api
    /\ world.pod = "Running"
    /\ Len(before) = 1
    /\ Len(active_forwards) = 2
    /\ http.body.status = "active"

InvalidPortErrors ==
    {"Invalid local port: " \o ToString(LastKwargs.local_port)
         \o ". Must be between 1 and 65535",
     "Invalid remote port: " \o ToString(LastKwargs.remote_port)
         \o ". Must be between 1 and 65535"}

\* C16: a start that names a pod and a namespace and whose local_port or
\* remote_port is an integer outside [1,65535] returns an error whose message
\* says "Invalid ... port", before any Kubernetes API call is made, and the
\* registry is left as it was.
C16_OutOfRangePortIsInvalid ==
    (IsFullStart /\ (~InRange(LastKwargs.local_port) \/ ~InRange(LastKwargs.remote_port)))
        => /\ ReturnedError
           /\ outcome.result.error \in InvalidPortErrors
           /\ ~outcome.api
           /\ active_forwards = before

\* C17 as stated, read on the starts whose remote_port is not 0: a start
\* whose local_port is in [1,65535] and bound on the local host returns an
\* error that says the port is "in use", and the registry is left as it was.
C17_BoundPortIsInUse ==
    (IsFullStart /\ InRange(LastKwargs.local_port) /\ LastKwargs.remote_port # 0
        /\ ~world.port_free)
        => /\ ReturnedError
           /\ outcome.result.error
                  = "Local port " \o ToString(LastKwargs.local_port) \o " is already in use"
           /\ active_forwards = before

\* C17 as amended: a start whose local_port and remote_port are both in
\* [1,65535] and whose local_port is bound on the local host returns an error
\* that says the port is "in use", before any Kubernetes API call is made,
\* and the registry is left as it was.
C17_BoundPortIsInUseWhenPortsAreValid ==
    (IsFullStart /\ InRange(LastKwargs.local_port) /\ InRange(LastKwargs.remote_port)
        /\ ~world.port_free)
        => /\ ReturnedError
           /\ outcome.result.error
                  = "Local port " \o ToString(LastKwargs.local_port) \o " is already in use"
           /\ ~outcome.api
           /\ active_forwards = before

C17_Witness ==
    /\ IsFullStart
    /\ LastKwargs = ValidStart
    /\ ~world.port_free
    /\ ReturnedError
    /\ before # <<>>
    /\ active_forwards = before

\* C18: the registry grows only by a start whose pod lookup reported phase
\* Running.  When the lookup answers 404 the start returns an error that
\* says the pod was "not found", when it reports another phase the start
\* returns an error that says the pod "is not running", and in both cases
\* the registry is left as it was.
C18_OnlyRunningPodsAreRegistered ==
    /\ active_forwards # before /\ Len(active_forwards) >= Len(before)
          => (IsStart /\ outcome.api /\ world.pod = "Running")
    /\ (IsStart /\ outcome.api /\ world.pod = "ApiException404")
          => /\ ReturnedError
             /\ outcome.result.error
                    = "Pod '" \o LastKwargs.pod_name \o "' not found in namespace '"
                          \o LastKwargs.namespace \o "'"
             /\ active_forwards = before
    /\ (IsStart /\ outcome.api /\ world.pod \notin {"Running", "ApiException404",
                                                      "ApiException500", "NoStatus"})
          => /\ ReturnedError
             /\ outcome.result.error
                    = "Pod '" \o LastKwargs.pod_name \o "' is not running (status: "
                          \o world.pod \o ")"
             /\ active_forwards = before

C18_Witness ==
    /\ IsStart
    /\ outcome.api
    /\ world.pod = "Pending"
    /\ ReturnedError
    /\ LastKwargs = BoundaryStart
    /\ before # <<>>
    /\ active_forwards = before

MissingParameters ==
    [error |-> "Missing required parameters. Need: pod_name, namespace, local_port, remote_port"]

\* C19: a call of the port-forwarding tool without an action in which any of
\* pod_name, namespace, local_port and remote_port is absent returns the
\* error "Missing required parameters...", makes no Kubernetes API call and
\* leaves the registry as it was; POST /tools/kubernetesportforwarding with
\* an empty body is answered with status 200 and that error.
C19_AbsentParameterIsMissing ==
    (IsPortForwardCall /\ "action" \notin DOMAIN LastKwargs
        /\ ~(DOMAIN ValidStart \subseteq DOMAIN LastKwargs))
        => /\ outcome.kind = "return"
           /\ outcome.result = MissingParameters
           /\ ~outcome.api
           /\ active_forwards = before
           /\ IsToolPost => (http.status = 200 /\ http.body = MissingParameters)

C19_Witness ==
    /\ IsToolPost
    /\ http.request = [name |-> "kubernetesportforwarding", params |-> <<>>]
    /\ http.status = 200
    /\ http.body = MissingParameters
    /\ before # <<>>
    /\ active_forwards = before

(***************************************************************************)
(* The stdio bridge.                                                       *)
(***************************************************************************)
\* C20: the bridge has at most one request in flight, has written exactly
\* one line for each request it was passed except the one in flight, and
\* the k-th line written carries the id of the k-th request, null for a
\* request without an id.
C20_BridgeIsSerialAndFifo ==
    pc \in {"loop", "eof"}
        => /\ Len(inflight) <= 1
           /\ Len(stdout) + Len(inflight) = Len(handled)
           /\ \A k \in DOMAIN stdout : stdout[k].id = Get(handled[k], "id", None)
           /\ pc = "eof" => inflight = <<>>

C20_Witness ==
    /\ pc = "eof"
    /\ Len(handled) = 3
    /\ Len(stdout) = 3
    /\ <<stdout[1].id, stdout[2].id, stdout[3].id>> = <<"a", "b", None>>
    /\ "error" \in DOMAIN stdout[2]
    /\ active_forwards # <<>>

\* C21: nothing is read or written before the probe, and a probe that fails,
\* whatever it met, leaves run returned with exactly one line on stdout, an
\* error object with code -32603, and no line read.
C21_FailedProbeWritesOneErrorAndReturns ==
    /\ probed = "none" => pc = "probe" /\ log = <<>> /\ stdout = <<>>
    /\ pc = "probe" => probed = "none"
    /\ probed \notin {"none", "ok"}
          => /\ pc = "failed"
             /\ log = <<>> /\ lines_read = 0 /\ handled = <<>>
             /\ Len(stdout) = 1
             /\ "error" \in DOMAIN stdout[1] /\ "result" \notin DOMAIN stdout[1]
             /\ stdout[1].error.code = -32603

C21_Witness ==
    /\ scheme = "http"
    /\ probed = "HTTPStatusError"
    /\ pc = "failed"
    /\ stdout = <<ProbeError("http", "HTTPStatusError")>>

\* C22: a line that is not valid JSON is answered by nothing: stdout holds
\* one line for each JSON object read and answered, none for any other line;
\* and right after such a line the loop is still running with nothing in
\* flight, so the lines after it are read and answered.
C22_InvalidJsonIsSkipped ==
    probed = "ok"
        => /\ Len(stdout) + Len(inflight)
                 = Cardinality({k \in DOMAIN log : log[k] = "object"})
           /\ (log # <<>> /\ log[Len(log)] \in {"malformed", "undecodable"})
                 => pc = "loop" /\ inflight = <<>>

C22_Witness ==
    /\ log = <<"malformed", "object", "undecodable", "eof">>
    /\ Len(stdout) = 1
    /\ "result" \in DOMAIN stdout[1]
    /\ stdout[1].id = Get(handled[1], "id", None)

\* C23: a line of stdout behind which the outbound call of a tools/list or
\* tools/call failed is an error object with code -32603 and the id of the
\* request it answers, and the loop has gone on: it ends only by
\* end-of-stream.
C23_FailedCallIsAnsweredWithTheRequestId ==
    probed = "ok"
        => /\ \A k \in DOMAIN stdout :
                  calls[k] \notin {"none", "ok"}
                      => /\ Get(handled[k], "method", None) \in {"tools/list", "tools/call"}
                         /\ DOMAIN stdout[k] = {"jsonrpc", "id", "error"}
                         /\ stdout[k].error.code = -32603
                         /\ stdout[k].id = Get(handled[k], "id", None)
           /\ (calls # <<>> /\ calls[Len(calls)] \notin {"none", "ok"})
                  => \/ pc = "loop"
                     \/ pc = "eof" /\ log[Len(log)] = "eof"

C23_Witness ==
    /\ scheme = "https"
    /\ calls = <<"ConnectTimeout", "ConnectError", "ok">>
    /\ Get(handled[1], "method", None) = "tools/call"
    /\ Get(handled[2], "method", None) = "tools/list"
    /\ stdout[1].id = "a" /\ stdout[1].error.code = -32603
    /\ stdout[2].id = None /\ stdout[2].error.code = -32603
    /\ "result" \in DOMAIN stdout[3]

\* C24: a request whose method is initialize, initialized, tools/list or
\* tools/call is never answered by the bridge with the error "method not
\* found" (-32601), as it is not by the dispatcher behind the HTTP endpoint.
C24_BridgeKnowsTheFourMethods ==
    probed = "ok"
        => \A k \in DOMAIN stdout :
               Get(handled[k], "method", None)
                       \in {"initialize", "initialized", "tools/list", "tools/call"}
                   => ~("error" \in DOMAIN stdout[k] /\ stdout[k].error.code = -32601)

\* C25: a tools/call that reaches the server and names a tool that is not
\* registered is answered by the bridge with the error -32602 and no result.
C25_BridgeRejectsUnregisteredTool ==
    probed = "ok"
        => \A k \in DOMAIN stdout :
               (/\ Get(handled[k], "method", None) = "tools/call"
                /\ calls[k] = "ok"
                /\ "name" \in DOMAIN Get(handled[k], "params", Obj(EmptyDict)).fields
                /\ RouteTool("/tools/" \o Get(Get(handled[k], "params", Obj(EmptyDict)).fields,
                                              "name", None)) = 0)
                   => /\ "error" \in DOMAIN stdout[k]
                      /\ stdout[k].error.code = -32602
                      /\ "result" \notin DOMAIN stdout[k]

C29_ResponseCarriesTheRequestId ==
    (IsMessage(http) /\ dispatch = "returned")
        => /\ "id" \in DOMAIN http.body
           /\ http.body.id = Get(http.request.value.fields, "id", None)
           /\ \/ "result" \in DOMAIN http.body
              \/ http.body.error.code \in {-32601, -32602, -32603}

C29_Witness ==
    /\ IsMessage(http)
    /\ dispatch = "returned"
    /\ "id" \notin DOMAIN http.request.value.fields
    /\ http.body.id = None
    /\ "error" \in DOMAIN http.body
    /\ http.body.error.code = -32603

(***************************************************************************)
(* Concurrent calls of the port-forwarding tool.                           *)
(***************************************************************************)
\* the places where the statement a thread runs next reads or writes
\* _active_forwards
AtRegistry == {"insert", "check", "delete", "iterate"}

\* C27: a thread that is about to read or write the registry (the insert of
\* start, the membership test and the delete of stop, the iteration of
\* list) holds the lock, at most one thread holds it, so no two accesses
\* overlap; and a thread at the port probe or the pod lookup does not hold it.
C27_RegistryAccessIsUnderTheLock ==
    /\ \A t \in Threads : tpc[t] \in AtRegistry => t \in holders
    /\ Cardinality(holders) <= 1
    /\ Cardinality({t \in Threads : tpc[t] \in AtRegistry}) <= 1
    /\ \A t \in Threads : tpc[t] \in {"probe", "lookup"} => t \notin holders
    /\ \A t \in holders : tpc[t] \in AtRegistry \cup {"release"}

C27_Witness ==
    /\ tpc[1] = "delete" /\ holders = {1}
    /\ tpc[2] = "acquire" /\ op[2].kind = "start" /\ op[2].phase = "Running"
    /\ active_forwards # <<>>

\* the threads that are returning from a stop of forward_id f
ReturningStop(f) ==
    {t \in Threads : tpc[t] = "return" /\ op[t].kind = "stop" /\ op[t].forward_id = f}

\* C28: of the stops of one forward_id at most one answers "stopped", and
\* then the entry is gone; every stop answers "stopped" or not-found; and
\* once a stop that was called while the id was registered returns, exactly
\* one stop has answered "stopped".
C28_ExactlyOneStopWins ==
    \A f \in StopIds :
        /\ stop_count[f] <= 1
        /\ stop_count[f] = 1 => ~HasForward(active_forwards, f)
        /\ \A t \in ReturningStop(f) :
               /\ \/ op[t].result = [status |-> "stopped", forward_id |-> f]
                  \/ op[t].result = [error |-> "Forward ID '" \o f \o "' not found"]
               /\ op[t].known => stop_count[f] = 1
        /\ Cardinality({t \in ReturningStop(f) : "status" \in DOMAIN op[t].result}) <= 1

C28_Witness ==
    /\ ReturningStop(Uuid(1)) = Threads
    /\ \A t \in Threads : op[t].known
    /\ Cardinality({t \in Threads : "status" \in DOMAIN op[t].result}) = 1
    /\ Cardinality({t \in Threads : "error" \in DOMAIN op[t].result}) = MaxThreads - 1
    /\ ~HasForward(active_forwards, Uuid(1))

\* the entries of the registry with the local port p
EntriesOn(p) == {i \in DOMAIN active_forwards : active_forwards[i].local_port = p}

\* C30: a start that found the host port free and the pod Running returns
\* "active" and has its entry in the registry when it leaves the lock,
\* whatever the registry held, an entry with the same local_port included;
\* a start that returns an error found the host port bound or the pod not
\* Running: only the bind probe decides on the port.
C30_StartIgnoresTheRegistry ==
    \A t \in Threads :
        op[t].kind = "start"
            => /\ (tpc[t] \in {"release", "return"} /\ op[t].free /\ op[t].phase = "Running")
                      => /\ "status" \in DOMAIN op[t].result
                         /\ op[t].result.status = "active"
                         /\ op[t].result.local_port = op[t].local_port
               /\ (tpc[t] = "release" /\ "status" \in DOMAIN op[t].result)
                      => \E i \in EntriesOn(op[t].local_port) :
                             /\ active_forwards[i].forward_id = op[t].forward_id
                             /\ active_forwards[i].status = "active"
               /\ (tpc[t] = "return" /\ "error" \in DOMAIN op[t].result)
                      => ~op[t].free \/ op[t].phase \in {"Pending", "ApiException404"}

\* two starts in progress at once have both registered the same local port
C30_Witness ==
    /\ tpc[1] = "return" /\ tpc[2] = "release"
    /\ op[1].kind = "start" /\ op[2].kind = "start"
    /\ op[1].local_port = op[2].local_port
    /\ ~op[1].known /\ ~op[2].known
    /\ Cardinality(EntriesOn(op[1].local_port)) = 2
    /\ \A i \in EntriesOn(op[1].local_port) : active_forwards[i].status = "active"

====
